---- MODULE Spec2Model ----
(***************************************************************************)
(* Model of image_tools/downsample.py: the module's import-time binding of *)
(* `mean` and `downsample_axis`, and the four block-averaging functions    *)
(* downsample, downsample_cube, downsample_1d and downsample_axis.         *)
(*                                                                         *)
(* Arrays are numpy ndarrays: a shape (a tuple of axis lengths) and one    *)
(* value per 0-based index tuple.  Values are exact rationals [n, d] with  *)
(* d > 0 in lowest terms, or NaN (d = 0): floating-point rounding is not   *)
(* modelled.  Indexing with a list of slices (lines 92 and 110) is read as *)
(* indexing with the tuple of those slices, which is what the numpy        *)
(* releases this module is written for (the ones that may still lack       *)
(* nanmean, or sit beside scipy.stats.nanmean) do.                         *)
(***************************************************************************)
EXTENDS Integers, Sequences, FiniteSets, TLC

VARIABLES
    scipy_has_nanmean,  \* the runtime: scipy.stats exports nanmean
    numpy_has_nanmean,  \* the runtime: numpy exports nanmean
    pc,                 \* "start", "imported", "import_failed", "returned"
    mean,               \* the module global `mean` (lines 2-7), or "unbound"
    axis_def,           \* which `def downsample_axis` ran: "none", "real", "stub"
    warned,             \* warnings.warn of line 116 was issued
    call,               \* the call made: function name and arguments
    result              \* outcome of the call: a returned array or an exception

vars == <<scipy_has_nanmean, numpy_has_nanmean, pc, mean, axis_def, warned, call, result>>

---------------------------------------------------------------------------
\* Bounds of the model.
MaxLen == 5          \* longest 1-D input
MaxSide2 == 4        \* longest axis of a 2-D input
MaxSide3 == 3        \* longest axis of a 3-D input
MaxFactor == 3       \* largest factor passed
MaxNegFactor == 2    \* factors go down to -MaxNegFactor

---------------------------------------------------------------------------
\* Numbers: exact rationals and the missing-value sentinel.

Max(a, b) == IF a >= b THEN a ELSE b
Min(a, b) == IF a <= b THEN a ELSE b
Abs(a) == IF a < 0 THEN -a ELSE a

RECURSIVE Gcd(_, _)
Gcd(a, b) == IF b = 0 THEN a ELSE Gcd(b, a % b)

NaN == [n |-> 0, d |-> 0]
IsNaN(v) == v.d = 0
Rat(n, d) == LET g == Gcd(Abs(n), d) IN [n |-> n \div g, d |-> d \div g]
Int2Num(n) == [n |-> n, d |-> 1]

\* float addition and division by a count; NaN propagates
NumAdd(a, b) == IF IsNaN(a) \/ IsNaN(b) THEN NaN
                ELSE Rat(a.n * b.d + b.n * a.d, a.d * b.d)
NumDivInt(a, k) == IF IsNaN(a) \/ k = 0 THEN NaN ELSE Rat(a.n, a.d * k)

RECURSIVE SeqSum(_)
SeqSum(s) == IF s = <<>> THEN Int2Num(0) ELSE NumAdd(s[1], SeqSum(Tail(s)))

RECURSIVE DropNaN(_)
DropNaN(s) == IF s = <<>> THEN <<>>
              ELSE IF IsNaN(s[1]) THEN DropNaN(Tail(s))
              ELSE <<s[1]>> \o DropNaN(Tail(s))

\* Python's %: the result takes the sign of the divisor (b /= 0)
PyMod(a, b) == IF b > 0 THEN a % b ELSE -((-a) % (-b))

---------------------------------------------------------------------------
\* ndarrays.

RECURSIVE Indices(_)
Indices(shape) ==
    IF shape = <<>> THEN {<<>>}
    ELSE {<<i>> \o r : i \in 0..(shape[1] - 1), r \in Indices(Tail(shape))}

RECURSIVE Prod(_)
Prod(shape) == IF shape = <<>> THEN 1 ELSE shape[1] * Prod(Tail(shape))

Ndim(a) == Len(a.shape)
Size(a) == Prod(a.shape)
\* an ndarray from its shape and its values, one per index tuple
MkArray(shape, values) == [shape |-> shape, data |-> values]

\* position of an index tuple in row-major (C) order
RECURSIVE Lin(_, _)
Lin(shape, idx) ==
    IF shape = <<>> THEN 0
    ELSE idx[1] * Prod(Tail(shape)) + Lin(Tail(shape), Tail(idx))

\* number of elements start, start+step, ... below stop, on an axis of length n
\* (slice(start, stop, step) with 0 <= start, 0 <= stop, step >= 1; stop clips to n)
SliceLen(n, start, stop, step) ==
    LET hi == Min(stop, n)
    IN  IF hi <= start THEN 0 ELSE (hi - start + step - 1) \div step

\* a[..., start:stop:step, ...] on axis `ax` (1-based position in the shape)
SliceAxis(a, ax, start, stop, step) ==
    LET newshape == [a.shape EXCEPT ![ax] = SliceLen(a.shape[ax], start, stop, step)]
    IN  MkArray(newshape, [idx \in Indices(newshape) |->
                             a.data[[idx EXCEPT ![ax] = start + step * idx[ax]]]])

\* a.swapaxes(i, j), axes given as 1-based positions
SwapAxes_none(a, i, j) == a
SwapAxes(a, i, j) ==
    LET sw(s) == [s EXCEPT ![i] = s[j], ![j] = s[i]]
        newshape == sw(a.shape)
    IN  MkArray(newshape, [idx \in Indices(newshape) |-> a.data[sw(idx)]])

\* The array numpy builds from a Python list of equally shaped arrays: a new
\* leading axis.  An empty list gives the empty 1-D array.
SameShapes(arrs) == \A i, j \in 1..Len(arrs) : arrs[i].shape = arrs[j].shape
NpArray(arrs) ==
    IF arrs = <<>> THEN [shape |-> <<0>>, data |-> [idx \in {} |-> NaN]]
    ELSE LET newshape == <<Len(arrs)>> \o arrs[1].shape
         IN  MkArray(newshape, [idx \in Indices(newshape) |->
                                  arrs[idx[1] + 1].data[Tail(idx)]])

\* numpy.concatenate of a non-empty list of arrays along axis 0 (the arrays
\* agree on the other axes)
RECURSIVE Concatenate0(_)
Concatenate0(arrs) ==
    IF Len(arrs) = 1 THEN arrs[1]
    ELSE LET a == arrs[1]
             b == Concatenate0(Tail(arrs))
             n == a.shape[1]
             newshape == <<n + b.shape[1]>> \o Tail(a.shape)
         IN  MkArray(newshape, [idx \in Indices(newshape) |->
                                  IF idx[1] < n THEN a.data[idx]
                                  ELSE b.data[[idx EXCEPT ![1] = idx[1] - n]]])

\* numpy.concatenate((a, b), axis=ax), ax a 1-based position
ConcatenateAxis(a, b, ax) ==
    LET n == a.shape[ax]
        newshape == [a.shape EXCEPT ![ax] = n + b.shape[ax]]
    IN  MkArray(newshape, [idx \in Indices(newshape) |->
                             IF idx[ax] < n THEN a.data[idx]
                             ELSE b.data[[idx EXCEPT ![ax] = idx[ax] - n]]])

\* numpy.empty(shape) * numpy.nan
NanArray_zeros(shape) == MkArray(shape, [idx \in Indices(shape) |-> Int2Num(0)])
NanArray(shape) == MkArray(shape, [idx \in Indices(shape) |-> NaN])

---------------------------------------------------------------------------
\* Estimators: reductions of the stacked array along its leading axis.

\* numpy.nanmean / scipy.stats.nanmean of one column: the NaN entries are
\* left out of both the sum and the count; NaN when nothing is left
NanMean_plain(s) == IF s = <<>> THEN NaN ELSE NumDivInt(SeqSum(s), Len(s))
NanMean(s) == LET v == DropNaN(s)
              IN  IF v = <<>> THEN NaN ELSE NumDivInt(SeqSum(v), Len(v))
\* numpy.mean and numpy.sum of one column: a NaN entry makes the result NaN
PlainMean(s) == IF s = <<>> THEN NaN ELSE NumDivInt(SeqSum(s), Len(s))
PlainSum(s) == SeqSum(s)

Estimators == {"scipy.stats.nanmean", "numpy.nanmean", "numpy.mean", "numpy.sum"}
MissingAware == {"scipy.stats.nanmean", "numpy.nanmean"}

ApplyEstimator(est, s) ==
    CASE est \in MissingAware -> NanMean(s)
      [] est = "numpy.mean" -> PlainMean(s)
      [] est = "numpy.sum" -> PlainSum(s)

\* estimator(stacked, axis=0)
Reduce0(est, a) ==
    MkArray(Tail(a.shape), [idx \in Indices(Tail(a.shape)) |->
        ApplyEstimator(est, [i \in 1..a.shape[1] |-> a.data[<<i - 1>> \o idx]])])

---------------------------------------------------------------------------
\* Outcomes of a call.

NoArray == [shape |-> <<0>>, data |-> [idx \in {} |-> NaN]]
Ok(a) == [status |-> "ok", exc |-> "", arr |-> a]
Raise(e) == [status |-> "raise", exc |-> e, arr |-> NoArray]
\* a list of arrays of unequal shapes handed to numpy.concatenate: what
\* happens next depends on the numpy release (see Call_downsample_1d)
Ragged == [status |-> "ragged", exc |-> "", arr |-> NoArray]
NoResult == [status |-> "none", exc |-> "", arr |-> NoArray]

---------------------------------------------------------------------------
\* Pieces shared by the four functions.

\* n - (n % int(factor)): the stop of the cropping slice, as each function
\* writes it
Crop2D(n, factor) == n - PyMod(n, factor)              \* line 22
CropCube(n, factor) == n - PyMod(n, factor)            \* line 35
Crop1D_none(n, factor) == n
Crop1D(n, factor) == n - PyMod(n, factor)              \* line 55
CropAxis_short(n, factor) == n - PyMod(n, factor) - factor
CropAxis(n, factor) == n - PyMod(n, factor)            \* line 91

\* range(factor), as the 1-based positions of its elements (ii = position - 1)
RangeOf(factor) == 1..Max(factor, 0)

\* first element of phase ii: crarr[ii::factor]
PhaseStart_zero(ii) == 0
PhaseStart(ii) == ii

\* 1-based position in the shape of a valid (possibly negative) axis number
AxisPos(a, axis) == IF axis < 0 THEN axis + Ndim(a) + 1 ELSE axis + 1

---------------------------------------------------------------------------
\* downsample (lines 9-26)

downsample(myarr, factor, estimator) ==
    IF Ndim(myarr) # 2 THEN Raise("ValueError")            \* ys,xs = myarr.shape
    ELSE IF factor = 0 THEN Raise("ZeroDivisionError")     \* ys % int(factor)
    ELSE
      LET ys == myarr.shape[1]
          xs == myarr.shape[2]
          crarr == SliceAxis(SliceAxis(myarr, 1, 0, Crop2D(ys, factor), 1),
                             2, 0, Crop2D(xs, factor), 1)
          piece(i, j) == SliceAxis(SliceAxis(crarr, 1, PhaseStart(i), ys, factor),
                                   2, PhaseStart(j), xs, factor)
          lists == [j \in RangeOf(factor) |->
                      NpArray([i \in RangeOf(factor) |-> piece(i - 1, j - 1)])]
      IN  IF lists = <<>> THEN Raise("ValueError")         \* nothing to concatenate
          ELSE Ok(Reduce0(estimator, Concatenate0(lists)))

---------------------------------------------------------------------------
\* downsample_cube (lines 28-40); meanfn is the module global `mean`

downsample_cube(myarr, factor, ignoredim, meanfn) ==
    IF ignoredim > 0 /\ ignoredim >= Ndim(myarr) THEN Raise("ValueError")  \* swapaxes
    ELSE IF Ndim(myarr) # 3 THEN Raise("ValueError")       \* zs,ys,xs = myarr.shape
    ELSE IF factor = 0 THEN Raise("ZeroDivisionError")
    ELSE
      LET sw == IF ignoredim > 0 THEN SwapAxes(myarr, 1, ignoredim + 1) ELSE myarr
          ys == sw.shape[2]
          xs == sw.shape[3]
          crarr == SliceAxis(SliceAxis(sw, 2, 0, CropCube(ys, factor), 1),
                             3, 0, CropCube(xs, factor), 1)
          piece(i, j) == SliceAxis(SliceAxis(crarr, 2, PhaseStart(i), ys, factor),
                                   3, PhaseStart(j), xs, factor)
          lists == [j \in RangeOf(factor) |->
                      NpArray([i \in RangeOf(factor) |-> piece(i - 1, j - 1)])]
      IN  IF lists = <<>> THEN Raise("ValueError")
          ELSE LET dsarr == Reduce0(meanfn, Concatenate0(lists))
               IN  Ok(IF ignoredim > 0 THEN SwapAxes(dsarr, 1, ignoredim + 1) ELSE dsarr)

---------------------------------------------------------------------------
\* downsample_1d (lines 42-58).  Nothing in it looks at the number of axes:
\* xs is the total element count and every slice acts on the first axis.

downsample_1d(myarr, factor, estimator) ==
    IF factor = 0 THEN Raise("ZeroDivisionError")
    ELSE
      LET xs == Size(myarr)
          crarr == SliceAxis(myarr, 1, 0, Crop1D(xs, factor), 1)
          phases == [i \in RangeOf(factor) |->
                       SliceAxis(crarr, 1, PhaseStart(i - 1), crarr.shape[1], factor)]
      IN  IF ~SameShapes(phases) THEN Ragged
          ELSE Ok(Reduce0(estimator, NpArray(phases)))     \* one list: concatenate keeps it

---------------------------------------------------------------------------
\* downsample_axis (lines 61-113), and the stub of lines 118-119

\* F - xs % F: the number of NaN slices appended when not truncating
PadLen(xs, factor) == factor - PyMod(xs, factor)

downsample_axis(myarr, factor, axis, estimator, truncate) ==
    IF axis < -Ndim(myarr) \/ axis >= Ndim(myarr) THEN Raise("IndexError")
    ELSE IF factor = 0 THEN Raise("ZeroDivisionError")
    ELSE
      LET ax == AxisPos(myarr, axis)
          xs == myarr.shape[ax]
          uneven == PyMod(xs, factor) # 0
          badpad == uneven /\ ~truncate /\ PadLen(xs, factor) < 0   \* numpy.empty
          crarr == IF ~uneven THEN myarr
                   ELSE IF truncate
                        THEN SliceAxis(myarr, ax, 0, CropAxis(xs, factor), 1)
                        ELSE ConcatenateAxis(myarr,
                               NanArray([myarr.shape EXCEPT ![ax] = PadLen(xs, factor)]), ax)
          makeslice(ii) == SliceAxis(crarr, ax, PhaseStart(ii), crarr.shape[ax], factor)
          lists == [ii \in RangeOf(factor) |-> NpArray(<<makeslice(ii - 1)>>)]
      IN  IF badpad THEN Raise("ValueError")
          ELSE IF lists = <<>> THEN Raise("ValueError")
          ELSE Ok(Reduce0(estimator, Concatenate0(lists)))

downsample_axis_stub == Raise("AttributeError")

---------------------------------------------------------------------------
\* Inputs.

\* the contents tried for every shape, by row-major position p:
\*   "ramp"    0, 1, 2, ...            "square"  0, 1, 4, 9, ...
\*   "gappy"   1, NaN, 3, 4, NaN, ...  "nan"     NaN everywhere
Patterns == {"ramp", "square", "gappy", "nan"}
PatternValue(pat, p) ==
    CASE pat = "ramp" -> Int2Num(p)
      [] pat = "square" -> Int2Num(p * p)
      [] pat = "gappy" -> IF p % 3 = 1 THEN NaN ELSE Int2Num(p + 1)
      [] pat = "nan" -> NaN

Shapes == {<<l>> : l \in 1..MaxLen}
          \cup {<<y, x>> : y, x \in 1..MaxSide2}
          \cup {<<z, y, x>> : z, y, x \in 1..MaxSide3}
Filled(shape, pat) ==
    MkArray(shape, [idx \in Indices(shape) |-> PatternValue(pat, Lin(shape, idx))])
Inputs == {Filled(shape, pat) : shape \in Shapes, pat \in Patterns}

Factors == (-MaxNegFactor)..MaxFactor
\* axis numbers tried for an array: every valid one, negative ones included,
\* and one beyond each end
AxesFor(a) == (-Ndim(a) - 1)..Ndim(a)
\* the estimator argument: left out ("default") or given
EstimatorArgs == {"default", "numpy.sum", "numpy.mean"}

NoCall == [fn |-> "", myarr |-> NoArray, factor |-> 0, axis |-> 0,
           estimator |-> "", truncate |-> FALSE]

---------------------------------------------------------------------------
\* The state machine: import the module once, then make one call.

Init ==
    /\ scipy_has_nanmean \in BOOLEAN
    /\ numpy_has_nanmean \in BOOLEAN
    /\ pc = "start"
    /\ mean = "unbound"
    /\ axis_def = "none"
    /\ warned = FALSE
    /\ call = NoCall
    /\ result = NoResult

\* lines 2-7: the value `mean` is bound to, or "ImportError" when the import
\* statement of line 5 raises inside the first handler (the handler of
\* line 6 belongs to the same try and does not cover line 5)
ImportMean(scipy, numpy) ==
    IF scipy THEN "scipy.stats.nanmean"
    ELSE IF numpy THEN "numpy.nanmean"
    ELSE "ImportError"

\* lines 60-119: evaluating the default numpy.nanmean of line 61 raises
\* AttributeError when numpy has none, and the stub is defined instead
ImportAxisDef(numpy) == IF numpy THEN "real" ELSE "stub"

Import ==
    /\ pc = "start"
    /\ LET m == ImportMean(scipy_has_nanmean, numpy_has_nanmean)
       IN  IF m = "ImportError"
           THEN /\ pc' = "import_failed"
                /\ UNCHANGED <<mean, axis_def, warned>>
           ELSE /\ pc' = "imported"
                /\ mean' = m
                /\ axis_def' = ImportAxisDef(numpy_has_nanmean)
                /\ warned' = ~numpy_has_nanmean
    /\ UNCHANGED <<scipy_has_nanmean, numpy_has_nanmean, call, result>>

Return(c, r) ==
    /\ call' = c
    /\ result' = r
    /\ pc' = "returned"
    /\ UNCHANGED <<scipy_has_nanmean, numpy_has_nanmean, mean, axis_def, warned>>

\* the default of `estimator=mean` (lines 9 and 42) is the global of lines 2-7
Call_downsample ==
    /\ pc = "imported"
    /\ \E myarr \in Inputs, factor \in Factors, e \in EstimatorArgs :
         LET est == IF e = "default" THEN mean ELSE e
         IN  Return([NoCall EXCEPT !.fn = "downsample", !.myarr = myarr,
                                   !.factor = factor, !.estimator = est],
                    downsample(myarr, factor, est))

Call_downsample_cube ==
    /\ pc = "imported"
    /\ \E myarr \in Inputs, factor \in Factors :
         \E ignoredim \in AxesFor(myarr) :
           Return([NoCall EXCEPT !.fn = "downsample_cube", !.myarr = myarr,
                                 !.factor = factor, !.axis = ignoredim,
                                 !.estimator = mean],
                  downsample_cube(myarr, factor, ignoredim, mean))

\* Phases of unequal length reach numpy.concatenate only when the input is
\* not 1-D.  numpy then either refuses the list (ValueError) or builds an
\* array of arrays, on which the estimator raises or returns a value that
\* is no block average: either can happen.
RaggedOutcomes == {Raise("ValueError"), Ok(NoArray)}

Call_downsample_1d ==
    /\ pc = "imported"
    /\ \E myarr \in Inputs, factor \in Factors, e \in EstimatorArgs :
         LET est == IF e = "default" THEN mean ELSE e
             c == [NoCall EXCEPT !.fn = "downsample_1d", !.myarr = myarr,
                                 !.factor = factor, !.estimator = est]
             r == downsample_1d(myarr, factor, est)
         IN  IF r.status = "ragged"
             THEN \E o \in RaggedOutcomes : Return(c, o)
             ELSE Return(c, r)

Call_downsample_axis ==
    /\ pc = "imported"
    /\ \E myarr \in Inputs, factor \in Factors, e \in EstimatorArgs, truncate \in BOOLEAN :
         \E axis \in AxesFor(myarr) :
           LET est == IF e = "default" THEN "numpy.nanmean" ELSE e
               c == [NoCall EXCEPT !.fn = "downsample_axis", !.myarr = myarr,
                                   !.factor = factor, !.axis = axis,
                                   !.estimator = est, !.truncate = truncate]
           IN  IF axis_def = "real"
               THEN Return(c, downsample_axis(myarr, factor, axis, est, truncate))
               ELSE Return(c, downsample_axis_stub)

Next ==
    \/ Import
    \/ Call_downsample
    \/ Call_downsample_cube
    \/ Call_downsample_1d
    \/ Call_downsample_axis

Spec == Init /\ [][Next]_vars

---------------------------------------------------------------------------
\* Properties.  Helpers used to state them:

Returned(fn) == pc = "returned" /\ call.fn = fn
CeilDiv(n, k) == (n + k - 1) \div k

\* the F consecutive elements of block k of a 1-D array, in order
Block1D(a, k, F) == [i \in 1..F |-> a.data[<<k * F + i - 1>>]]
\* the F*F elements of block (r, c) of a 2-D array, row by row
Block2D(a, r, c, F) ==
    [m \in 1..(F * F) |-> a.data[<<r * F + (m - 1) \div F, c * F + ((m - 1) % F)>>]]

\* the (Ndim-1)-dimensional slice of a at index z of axis ax (1-based position)
DropAt(s, ax) == [i \in 1..(Len(s) - 1) |-> IF i < ax THEN s[i] ELSE s[i + 1]]
InsertAt(s, ax, z) ==
    [i \in 1..(Len(s) + 1) |-> IF i < ax THEN s[i] ELSE IF i = ax THEN z ELSE s[i - 1]]
TakeAxis(a, ax, z) ==
    MkArray(DropAt(a.shape, ax),
            [idx \in Indices(DropAt(a.shape, ax)) |-> a.data[InsertAt(idx, ax, z)]])

\* elementwise division of an array by an integer
ArrDivInt(a, k) == MkArray(a.shape, [idx \in Indices(a.shape) |-> NumDivInt(a.data[idx], k)])

\* C1: downsample_1d of a 1-D array of length L by a factor F >= 1 returns,
\* without raising, a 1-D array of length floor(L/F) whose element k is the
\* estimator applied to the F consecutive elements A[k*F] .. A[k*F+F-1]; the
\* trailing L mod F elements are in no block (F > L gives the empty array).
C1_Blocks1D ==
    (Returned("downsample_1d") /\ Ndim(call.myarr) = 1 /\ call.factor >= 1) =>
        LET A == call.myarr
            F == call.factor
            n == A.shape[1] \div F
        IN  /\ result.status = "ok"
            /\ result.arr.shape = <<n>>
            /\ \A k \in 0..(n - 1) :
                 result.arr.data[<<k>>] = ApplyEstimator(call.estimator, Block1D(A, k, F))

\* a length-5 array halved: two blocks, the fifth element dropped
C1_Witness ==
    /\ Returned("downsample_1d")
    /\ call.myarr = Filled(<<5>>, "ramp") /\ call.factor = 2
    /\ call.estimator = "numpy.sum"
    /\ result = Ok(MkArray(<<2>>, [idx \in Indices(<<2>>) |-> Int2Num(4 * idx[1] + 1)]))

\* C2: downsample of a 2-D array of shape (Y, X) by a factor F >= 1 returns an
\* array of shape (floor(Y/F), floor(X/F)) whose cell (r, c) is the estimator
\* applied to the F*F values A[r*F+i][c*F+j], 0 <= i, j < F, each taken once.
C2_Blocks2D ==
    (Returned("downsample") /\ Ndim(call.myarr) = 2 /\ call.factor >= 1) =>
        LET A == call.myarr
            F == call.factor
            ny == A.shape[1] \div F
            nx == A.shape[2] \div F
        IN  /\ result.status = "ok"
            /\ result.arr.shape = <<ny, nx>>
            /\ \A r \in 0..(ny - 1), c \in 0..(nx - 1) :
                 result.arr.data[<<r, c>>] =
                     ApplyEstimator(call.estimator, Block2D(A, r, c, F))

\* the 4x4 array 0..15 halved with the default mean: top-left cell 2.5
C2_Witness ==
    /\ Returned("downsample")
    /\ call.myarr = Filled(<<4, 4>>, "ramp") /\ call.factor = 2
    /\ call.estimator \in MissingAware
    /\ result.status = "ok"
    /\ result.arr.shape = <<2, 2>>
    /\ result.arr.data[<<0, 0>>] = Rat(5, 2)

\* C3: where numpy provides nanmean (the real downsample_axis is defined),
\* downsample_axis(A, F, a, missing-aware mean, truncate=False), F >= 1, a a
\* valid axis of length xs, returns an array with length ceil(xs/F) along a
\* and the other axes unchanged, whose element k along a is the mean of the
\* non-missing input elements at positions k*F .. min(k*F+F, xs)-1 along a
\* (NaN when there is none); with truncate=True the length is floor(xs/F).
C3_PadOrTruncate ==
    (/\ Returned("downsample_axis") /\ axis_def = "real"
     /\ call.factor >= 1 /\ call.estimator \in MissingAware
     /\ call.axis >= -Ndim(call.myarr) /\ call.axis < Ndim(call.myarr)) =>
        LET A == call.myarr
            F == call.factor
            ax == IF call.axis < 0 THEN call.axis + Ndim(A) + 1 ELSE call.axis + 1
            xs == A.shape[ax]
            real(idx) == LET k == idx[ax]
                             hi == IF k * F + F <= xs THEN k * F + F ELSE xs
                         IN  [i \in 1..(hi - k * F) |-> A.data[[idx EXCEPT ![ax] = k * F + i - 1]]]
            present(idx) == DropNaN(real(idx))
        IN  /\ result.status = "ok"
            /\ IF call.truncate
               THEN result.arr.shape = [A.shape EXCEPT ![ax] = xs \div F]
               ELSE /\ result.arr.shape = [A.shape EXCEPT ![ax] = CeilDiv(xs, F)]
                    /\ \A idx \in Indices(result.arr.shape) :
                         result.arr.data[idx] =
                             IF present(idx) = <<>> THEN NaN
                             ELSE NumDivInt(SeqSum(present(idx)), Len(present(idx)))

\* [0,1,2,3] by 3 without truncation: two elements, mean(0,1,2) and mean(3)
C3_Witness ==
    /\ Returned("downsample_axis") /\ axis_def = "real"
    /\ call.myarr = Filled(<<4>>, "ramp") /\ call.factor = 3 /\ call.axis = 0
    /\ call.estimator = "numpy.nanmean" /\ ~call.truncate
    /\ result = Ok(MkArray(<<2>>, [idx \in Indices(<<2>>) |-> Int2Num(2 * idx[1] + 1)]))

\* C4: downsample_cube(A, F, d) of a 3-D array, F >= 1, d in {0, 1, 2},
\* returns a 3-D array in the original axis order: axis d keeps its length,
\* the other two have length floor(n/F), and the slice at every index z of
\* axis d equals downsample(slice of A at z, F, missing-aware mean).
C4_CubeSlices ==
    (/\ Returned("downsample_cube") /\ Ndim(call.myarr) = 3
     /\ call.factor >= 1 /\ call.axis \in 0..2) =>
        LET A == call.myarr
            F == call.factor
            d == call.axis + 1
        IN  /\ result.status = "ok"
            /\ result.arr.shape = [i \in 1..3 |-> IF i = d THEN A.shape[i]
                                                 ELSE A.shape[i] \div F]
            /\ \A z \in 0..(A.shape[d] - 1) :
                 Ok(TakeAxis(result.arr, d, z)) = downsample(TakeAxis(A, d, z), F, mean)

\* a 2x3x3 cube halved around its last axis: shape (1, 1, 3)
C4_Witness ==
    /\ Returned("downsample_cube")
    /\ call.myarr = Filled(<<2, 3, 3>>, "ramp") /\ call.factor = 2 /\ call.axis = 2
    /\ result.status = "ok"
    /\ result.arr.shape = <<1, 1, 3>>
    /\ result.arr.data[<<0, 0, 1>>] = Rat(14, 2)

\* C5: where the real downsample_axis is defined, on a 1-D array of any
\* length, with any factor F >= 1 and any estimator,
\* downsample_axis(A, F, 0, E, truncate=True) returns what
\* downsample_1d(A, F, E) returns.
C5_AxisTruncIs1D ==
    (/\ Returned("downsample_axis") /\ axis_def = "real"
     /\ Ndim(call.myarr) = 1 /\ call.axis = 0 /\ call.truncate
     /\ call.factor >= 1) =>
        /\ result.status = "ok"
        /\ result = downsample_1d(call.myarr, call.factor, call.estimator)

\* length 5 by 2 with truncation and sum: [0+1, 2+3]
C5_Witness ==
    /\ Returned("downsample_axis") /\ axis_def = "real"
    /\ call.myarr = Filled(<<5>>, "ramp") /\ call.factor = 2 /\ call.axis = 0
    /\ call.truncate /\ call.estimator = "numpy.sum"
    /\ result = Ok(MkArray(<<2>>, [idx \in Indices(<<2>>) |-> Int2Num(4 * idx[1] + 1)]))

\* C6: for 1-D arrays A of length L, elements possibly NaN, and F >= 1
\* dividing L, downsample_1d(A, F, sum) / F equals downsample_1d(A, F, mean)
\* with the default mean.  (As stated; arrays are compared position by
\* position, a NaN matching a NaN.)
C6_SumOverFIsMean ==
    (/\ Returned("downsample_1d") /\ Ndim(call.myarr) = 1
     /\ call.factor >= 1 /\ call.myarr.shape[1] % call.factor = 0
     /\ call.estimator \in MissingAware) =>
        LET bysum == downsample_1d(call.myarr, call.factor, "numpy.sum")
        IN  /\ result.status = "ok" /\ bysum.status = "ok"
            /\ ArrDivInt(bysum.arr, call.factor) = result.arr

\* C6 as amended: element by element, where block k holds no NaN the sum
\* divided by F equals the default mean; where it holds one, the sum divided
\* by F is NaN while the mean is that of the block's non-NaN elements (NaN
\* when all are NaN).
C6_SumOverFIsMeanNoNaN ==
    (/\ Returned("downsample_1d") /\ Ndim(call.myarr) = 1
     /\ call.factor >= 1 /\ call.myarr.shape[1] % call.factor = 0
     /\ call.estimator \in MissingAware) =>
        LET A == call.myarr
            F == call.factor
            bysum == downsample_1d(A, F, "numpy.sum")
            byF(k) == NumDivInt(bysum.arr.data[<<k>>], F)
            present(k) == DropNaN(Block1D(A, k, F))
        IN  /\ result.status = "ok" /\ bysum.status = "ok"
            /\ result.arr.shape = bysum.arr.shape
            /\ \A k \in 0..(A.shape[1] \div F - 1) :
                 IF Len(present(k)) = F
                 THEN ~IsNaN(byF(k)) /\ byF(k) = result.arr.data[<<k>>]
                 ELSE /\ IsNaN(byF(k))
                      /\ result.arr.data[<<k>>] =
                             IF present(k) = <<>> THEN NaN
                             ELSE NumDivInt(SeqSum(present(k)), Len(present(k)))

\* [1, NaN, 3, 4] by 2 with the default mean: a block with a NaN and one without
C6_Witness ==
    /\ Returned("downsample_1d")
    /\ call.myarr = Filled(<<4>>, "gappy") /\ call.factor = 2
    /\ call.estimator \in MissingAware
    /\ result.status = "ok"
    /\ result.arr.data[<<0>>] = Int2Num(1)
    /\ result.arr.data[<<1>>] = Rat(7, 2)

\* C7: a call of any of the four functions with factor <= 0 ends in an
\* error and returns no value.
C7_NonPositiveFactorRaises ==
    (pc = "returned" /\ call.factor <= 0) => result.status = "raise"

\* C8: a call with an array of the wrong dimensionality ends in an error:
\* downsample_1d of an array that is not 1-D, downsample of one that is not
\* 2-D, downsample_cube of one that is not 3-D, for every factor >= 1.
C8_WrongNdimRaises ==
    (/\ pc = "returned" /\ call.factor >= 1
     /\ \/ call.fn = "downsample_1d" /\ Ndim(call.myarr) # 1
        \/ call.fn = "downsample" /\ Ndim(call.myarr) # 2
        \/ call.fn = "downsample_cube" /\ Ndim(call.myarr) # 3) =>
        result.status = "raise"

\* C9: whenever numpy has no nanmean, importing the module still completes
\* and every later call of downsample_axis raises AttributeError; and the
\* plain numpy.mean is never bound as the default estimator.
C9_ImportDegradesGracefully ==
    /\ (pc # "start" /\ ~numpy_has_nanmean) =>
           /\ pc # "import_failed"
           /\ axis_def = "stub"
           /\ Returned("downsample_axis") =>
                  result.status = "raise" /\ result.exc = "AttributeError"
    /\ mean # "numpy.mean"

\* C10: for a 3-D array, F >= 1 and k in {1, 2}, downsample_cube with
\* ignoredim = k - 3 returns what it returns with ignoredim = k.
C10_NegativeIgnoredim ==
    (/\ Returned("downsample_cube") /\ Ndim(call.myarr) = 3
     /\ call.factor >= 1 /\ call.axis \in {-2, -1}) =>
        result = downsample_cube(call.myarr, call.factor, call.axis + 3, mean)

====
